---------------------------- MODULE Spec2Model ----------------------------
(***************************************************************************)
(* A model of include/utilities/mathOptimizations.h (yafray): the fast     *)
(* approximate math primitives fExp2, fLog2, bab2xSqrt/fSqrt, fSin, fAsin  *)
(* and fAtan, with FAST_MATH and FAST_TRIG defined.                        *)
(*                                                                         *)
(* The functions are pure.  A state holds the position of one call (pc),   *)
(* the function called (fn), its argument (arg), the locals the function   *)
(* computed (loc) and the value it returned (ret).  A float is held as the *)
(* 32-bit pattern the union bitTwiddler shows through its int member, a C  *)
(* int in -2^31 .. 2^31-1.  Arithmetic is IEEE-754 binary32 (float) and    *)
(* binary64 (double), round to nearest even, evaluated in the type of the  *)
(* C++ expression (FLT_EVAL_METHOD 0): every operation is computed exactly *)
(* on sign, integer significand and exponent, then rounded to the format.  *)
(* Significands are naturals of any size, kept as little-endian sequences  *)
(* of 15-bit limbs, since a product of two 53-bit significands has 106     *)
(* bits.                                                                   *)
(***************************************************************************)
EXTENDS Integers, Sequences, FiniteSets

VARIABLES pc, fn, arg, loc, ret

vars == <<pc, fn, arg, loc, ret>>

(***************************************************************************)
(* Naturals of any size: <<>> is 0, the last limb is never 0.              *)
(***************************************************************************)
Base == 2^15

HeadZ(a) == IF a = <<>> THEN 0 ELSE Head(a)

TailZ(a) == IF a = <<>> THEN <<>> ELSE Tail(a)

RECURSIVE NNorm(_)
NNorm(a) ==
    IF a = <<>> THEN <<>>
    ELSE IF a[Len(a)] = 0 THEN NNorm(SubSeq(a, 1, Len(a) - 1)) ELSE a

\* an int 0 <= n < 2^31 as a natural, and back
NFromInt(n) == NNorm(<<n % Base, (n \div Base) % Base, n \div (Base * Base)>>)

NToInt(a) ==
    CASE Len(a) = 0 -> 0
      [] Len(a) = 1 -> a[1]
      [] Len(a) = 2 -> a[1] + Base * a[2]
      [] Len(a) = 3 -> a[1] + Base * a[2] + (Base * Base) * a[3]

RECURSIVE NAddC(_, _, _)
NAddC(a, b, c) ==
    IF a = <<>> /\ b = <<>> THEN (IF c = 0 THEN <<>> ELSE <<c>>)
    ELSE LET t == HeadZ(a) + HeadZ(b) + c
         IN  <<t % Base>> \o NAddC(TailZ(a), TailZ(b), t \div Base)

NAdd(a, b) == NAddC(a, b, 0)

\* a - b - c for a >= b + c; the borrow c is 0 or 1.
RECURSIVE NSubC(_, _, _)
NSubC(a, b, c) ==
    IF a = <<>> THEN <<>>
    ELSE LET t == Head(a) - HeadZ(b) - c
         IN  <<t % Base>> \o NSubC(Tail(a), TailZ(b), IF t < 0 THEN 1 ELSE 0)

NSub(a, b) == NNorm(NSubC(a, b, 0))

\* -1, 0, 1 as a < b, a = b, a > b.
NCmp(a, b) ==
    IF Len(a) < Len(b) THEN -1
    ELSE IF Len(a) > Len(b) THEN 1
    ELSE IF a = b THEN 0
    ELSE LET i == CHOOSE i \in 1..Len(a) :
                      a[i] # b[i] /\ \A j \in (i + 1)..Len(a) : a[j] = b[j]
         IN  IF a[i] < b[i] THEN -1 ELSE 1

\* a * d + c for a limb d and a carry c below Base.
RECURSIVE NMulS(_, _, _)
NMulS(a, d, c) ==
    IF a = <<>> THEN (IF c = 0 THEN <<>> ELSE <<c>>)
    ELSE LET t == Head(a) * d + c
         IN  <<t % Base>> \o NMulS(Tail(a), d, t \div Base)

RECURSIVE NMul(_, _)
NMul(a, b) ==
    IF a = <<>> \/ b = <<>> THEN <<>>
    ELSE NNorm(NAdd(NMulS(a, Head(b), 0), <<0>> \o NMul(a, Tail(b))))

NShl(a, k) ==
    IF a = <<>> THEN <<>>
    ELSE [j \in 1..(k \div 15) |-> 0] \o NNorm(NMulS(a, 2^(k % 15), 0))

\* floor(a / 2^k)
NShr(a, k) ==
    LET q == k \div 15
        r == k % 15
        n == Len(a) - q
    IN  IF n <= 0 THEN <<>>
        ELSE NNorm([j \in 1..n |->
                 (a[q + j] \div 2^r)
               + (IF j < n THEN (a[q + j + 1] % 2^r) * 2^(15 - r) ELSE 0)])

\* the number of bits of a limb n
BitLenInt(n) == Cardinality({i \in 0..14 : 2^i <= n})

NBitLen(a) == IF a = <<>> THEN 0 ELSE 15 * (Len(a) - 1) + BitLenInt(a[Len(a)])

\* bit i of a, bit 0 the lowest
NBit(a, i) ==
    LET j == (i \div 15) + 1
    IN  IF j > Len(a) THEN 0 ELSE (a[j] \div 2^(i % 15)) % 2

\* whether the k lowest bits of a are all 0
NLowZero(a, k) ==
    LET q == k \div 15
    IN  /\ \A j \in 1..q : j > Len(a) \/ a[j] = 0
        /\ (q + 1 > Len(a) \/ a[q + 1] % 2^(k % 15) = 0)

NOdd(a) == a # <<>> /\ a[1] % 2 = 1

\* <<floor((r * Base^Len(a) + a) / d), the remainder>> for 0 <= r < d < 2^16:
\* the upper half of the limbs is divided first, its remainder goes on to
\* the lower half
RECURSIVE NDivSTop(_, _, _)
NDivSTop(a, d, r) ==
    IF r >= d \/ a = <<>> THEN <<<<>>, r>>
    ELSE IF Len(a) = 1 THEN <<<<(r * Base + a[1]) \div d>>, (r * Base + a[1]) % d>>
    ELSE LET h  == Len(a) \div 2
             hi == NDivSTop(SubSeq(a, h + 1, Len(a)), d, r)
             lo == NDivSTop(SubSeq(a, 1, h), d, hi[2])
         IN  <<lo[1] \o hi[1], lo[2]>>

NDivS(a, d) == LET qr == NDivSTop(a, d, 0) IN <<NNorm(qr[1]), qr[2]>>

(***************************************************************************)
(* Floating-point values: nan, inf with sign s, or the finite value        *)
(* (-1)^s * m * 2^e with m a natural (0 keeps its sign).                   *)
(***************************************************************************)
Val(s, m, e) == [k |-> "fin", s |-> s, m |-> m, e |-> e]

Inf(s) == [k |-> "inf", s |-> s, m |-> <<>>, e |-> 0]

NaN == [k |-> "nan", s |-> 1, m |-> <<>>, e |-> 0]

IsZero(v) == v.k = "fin" /\ v.m = <<>>

IsFinite(v) == v.k = "fin"

\* precision, exponent of the lowest subnormal bit, overflow threshold 2^emax
Binary32 == [p |-> 24, emin |-> -149, emax |-> 128]

Binary64 == [p |-> 53, emin |-> -1074, emax |-> 1024]

\* A finite value rounded to nearest, ties to even, in format f.
Round(v, f) ==
    IF v.k # "fin" \/ v.m = <<>> THEN v
    ELSE LET L  == NBitLen(v.m)
             e2 == IF v.e + L - f.p > f.emin THEN v.e + L - f.p ELSE f.emin
             sh == e2 - v.e
         IN  IF sh <= 0
             THEN (IF v.e + L > f.emax THEN Inf(v.s) ELSE v)
             ELSE LET q  == NShr(v.m, sh)
                      up == /\ NBit(v.m, sh - 1) = 1
                            /\ (~NLowZero(v.m, sh - 1) \/ NOdd(q))
                      m2 == IF up THEN NAdd(q, <<1>>) ELSE q
                  IN  IF e2 + NBitLen(m2) > f.emax THEN Inf(v.s)
                      ELSE Val(v.s, m2, e2)

\* -1, 0, 1 as |a| < |b|, |a| = |b|, |a| > |b|, for finite a and b
CmpMag(a, b) ==
    IF a.m = <<>> \/ b.m = <<>>
    THEN (IF a.m = b.m THEN 0 ELSE IF a.m = <<>> THEN -1 ELSE 1)
    ELSE LET ta == a.e + NBitLen(a.m)
             tb == b.e + NBitLen(b.m)
         IN  IF ta < tb THEN -1
             ELSE IF ta > tb THEN 1
             ELSE LET e0 == IF a.e < b.e THEN a.e ELSE b.e
                  IN  NCmp(NShl(a.m, a.e - e0), NShl(b.m, b.e - e0))

\* the C++ operators < and == on floating-point values (false on nan)
FLt(a, b) ==
    IF a.k = "nan" \/ b.k = "nan" THEN FALSE
    ELSE IF a.k = "inf" THEN (a.s = 1 /\ ~(b.k = "inf" /\ b.s = 1))
    ELSE IF b.k = "inf" THEN b.s = 0
    ELSE IF IsZero(a) /\ IsZero(b) THEN FALSE
    ELSE IF IsZero(a) THEN b.s = 0
    ELSE IF IsZero(b) THEN a.s = 1
    ELSE IF a.s # b.s THEN a.s = 1
    ELSE IF a.s = 0 THEN CmpMag(a, b) = -1
    ELSE CmpMag(a, b) = 1

FEq(a, b) ==
    IF a.k = "nan" \/ b.k = "nan" THEN FALSE
    ELSE IF a.k = "inf" \/ b.k = "inf" THEN (a.k = b.k /\ a.s = b.s)
    ELSE IF IsZero(a) \/ IsZero(b) THEN (IsZero(a) /\ IsZero(b))
    ELSE a.s = b.s /\ CmpMag(a, b) = 0

FLe(a, b) == FLt(a, b) \/ FEq(a, b)

FNeg(a) == [a EXCEPT !.s = 1 - a.s]

\* std::fabs
FAbs(a) == [a EXCEPT !.s = 0]

\* the exact sum of two finite values; a zero sum is +0 unless both are -0
AddExact(a, b) ==
    LET e0 == IF a.e < b.e THEN a.e ELSE b.e
        ma == NShl(a.m, a.e - e0)
        mb == NShl(b.m, b.e - e0)
        c  == NCmp(ma, mb)
    IN  IF a.m = <<>> /\ b.m = <<>>
        THEN Val(IF a.s = 1 /\ b.s = 1 THEN 1 ELSE 0, <<>>, 0)
        ELSE IF a.m = <<>> THEN b
        ELSE IF b.m = <<>> THEN a
        ELSE IF a.s = b.s THEN Val(a.s, NAdd(ma, mb), e0)
        ELSE IF c = 0 THEN Val(0, <<>>, 0)
        ELSE IF c = 1 THEN Val(a.s, NSub(ma, mb), e0)
        ELSE Val(b.s, NSub(mb, ma), e0)

\* a + b in format f
Add(a, b, f) ==
    IF a.k = "nan" \/ b.k = "nan" THEN NaN
    ELSE IF a.k = "inf"
    THEN (IF b.k = "inf" /\ b.s # a.s THEN NaN ELSE a)
    ELSE IF b.k = "inf" THEN b
    ELSE Round(AddExact(a, b), f)

Sub(a, b, f) == Add(a, FNeg(b), f)

\* a * b in format f
Mul(a, b, f) ==
    LET s == (a.s + b.s) % 2
    IN  IF a.k = "nan" \/ b.k = "nan" THEN NaN
        ELSE IF a.k = "inf" \/ b.k = "inf"
        THEN (IF IsZero(a) \/ IsZero(b) THEN NaN ELSE Inf(s))
        ELSE Round(Val(s, NMul(a.m, b.m), IF a.m = <<>> \/ b.m = <<>> THEN 0 ELSE a.e + b.e), f)

\* <<floor((q + r / d) * 2^(7 * k)), whether a remainder is left>> for ints
\* 0 <= r < d < 2^24: long division, seven quotient bits at a time
RECURSIVE LongDiv(_, _, _, _)
LongDiv(r, d, q, k) ==
    IF k = 0 THEN <<q, r # 0>>
    ELSE LongDiv((r * 128) % d, d, q * 128 + (r * 128) \div d, k - 1)

\* a finite nonzero binary32 value with its significand on exactly 24 bits
Norm24(a) ==
    LET L == NBitLen(a.m)
    IN  IF L <= 24 THEN Val(a.s, NShl(a.m, 24 - L), a.e - (24 - L))
        ELSE Val(a.s, NShr(a.m, L - 24), a.e + (L - 24))

\* a / b on binary32 operands in binary32: the quotient of the two 24-bit
\* significands to 28 bits after the point, and a sticky bit
FDiv(a, b) ==
    LET s == (a.s + b.s) % 2
    IN  IF a.k = "nan" \/ b.k = "nan" THEN NaN
        ELSE IF a.k = "inf" THEN (IF b.k = "inf" THEN NaN ELSE Inf(s))
        ELSE IF b.k = "inf" THEN Val(s, <<>>, 0)
        ELSE IF IsZero(b) THEN (IF IsZero(a) THEN NaN ELSE Inf(s))
        ELSE IF IsZero(a) THEN Val(s, <<>>, 0)
        ELSE LET na == Norm24(a)
                 nb == Norm24(b)
                 n  == NToInt(na.m)
                 d  == NToInt(nb.m)
                 qr == LongDiv(n % d, d, n \div d, 4)
             IN  Round(Val(s, NFromInt(2 * qr[1] + (IF qr[2] THEN 1 ELSE 0)),
                           na.e - nb.e - 29), Binary32)

FAddF(a, b) == Add(a, b, Binary32)

FSubF(a, b) == Sub(a, b, Binary32)

FMulF(a, b) == Mul(a, b, Binary32)

\* (float)d for a double d; a float is a double as it stands
ToFloat(v) == Round(v, Binary32)

(***************************************************************************)
(* The union bitTwiddler: the 32 bits of a float read as a C int, and back.*)
(***************************************************************************)
\* bits 0..30 of the int b
Low31(b) == IF b >= 0 THEN b ELSE (b + 2147483647) + 1

\* the int whose bit 31 is s and whose bits 0..30 are low
WithSign(s, low) == IF s = 0 THEN low ELSE (low - 2147483647) - 1

\* bitTwiddler.f after a write to .i
AsFloat(b) ==
    LET s  == IF b < 0 THEN 1 ELSE 0
        E  == Low31(b) \div 2^23
        M  == Low31(b) % 2^23
    IN  IF E = 255 THEN (IF M = 0 THEN Inf(s) ELSE NaN)
        ELSE IF E = 0 THEN Val(s, NFromInt(M), -149)
        ELSE Val(s, NFromInt(M + 2^23), E - 150)

\* bitTwiddler.i after a write to .f of a binary32 value
AsInt(v) ==
    IF v.k = "nan" THEN WithSign(1, 255 * 2^23 + 2^22)
    ELSE IF v.k = "inf" THEN WithSign(v.s, 255 * 2^23)
    ELSE IF v.m = <<>> THEN WithSign(v.s, 0)
    ELSE LET L   == NBitLen(v.m)
             top == v.e + L
         IN  IF top >= -125
             THEN LET m24 == IF L <= 24 THEN NShl(v.m, 24 - L) ELSE NShr(v.m, L - 24)
                  IN  WithSign(v.s, (top + 125) * 2^23 + NToInt(m24))
             ELSE WithSign(v.s, NToInt(IF v.e >= -149 THEN NShl(v.m, v.e + 149)
                                       ELSE NShr(v.m, -149 - v.e)))

\* (int)v for a finite v whose integer part fits an int: the fraction is dropped
ToInt(v) ==
    LET mag == IF v.e >= 0 THEN NShl(v.m, v.e) ELSE NShr(v.m, -v.e)
    IN  IF v.s = 0 THEN NToInt(mag) ELSE -NToInt(mag)

\* an int as an exact value; (float)n is ToFloat(OfInt(n))
OfInt(n) == IF n >= 0 THEN Val(0, NFromInt(n), 0) ELSE Val(1, NFromInt(-n), 0)

(***************************************************************************)
(* Exact arithmetic on finite values, in which the properties are stated:  *)
(* nothing is rounded here.                                                *)
(***************************************************************************)
ExactSub(a, b) == AddExact(a, FNeg(b))

ExactMul(a, b) ==
    Val((a.s + b.s) % 2, NMul(a.m, b.m),
        IF a.m = <<>> \/ b.m = <<>> THEN 0 ELSE a.e + b.e)

\* whether the finite value v is an integer
IsInt(v) == v.e >= 0 \/ NLowZero(v.m, 0 - v.e)

\* floor(v) and ceil(v) for a finite v below 2^31 in size
Floor(v) == IF v.s = 0 \/ IsInt(v) THEN ToInt(v) ELSE ToInt(v) - 1

Ceil(v) == IF v.s = 1 \/ IsInt(v) THEN ToInt(v) ELSE ToInt(v) + 1

\* 2^k as an exact value
Pow2(k) == Val(0, <<1>>, k)

(***************************************************************************)
(* Decimal literals.  DecLit(digs, frac, f) is the literal whose digits    *)
(* are digs, the last frac of them after the decimal point, converted to   *)
(* format f as the compiler converts it: correctly rounded.  A literal     *)
(* with the suffix f is a float, one without is a double.                  *)
(***************************************************************************)
\* acc * 10^Len(digs) + the natural written by the decimal digits digs,
\* taking up to four digits at a time
RECURSIVE NFromDigits(_, _)
NFromDigits(digs, acc) ==
    IF digs = <<>> THEN acc
    ELSE IF Len(digs) >= 4
    THEN NFromDigits(SubSeq(digs, 5, Len(digs)),
                     NMulS(acc, 10000, 1000 * digs[1] + 100 * digs[2]
                                         + 10 * digs[3] + digs[4]))
    ELSE NFromDigits(Tail(digs), NMulS(acc, 10, digs[1]))

\* <<floor(a / 10^n), whether a remainder was dropped now or before (rem)>>,
\* dividing by up to 10^4 at a time
RECURSIVE DivPow10(_, _, _)
DivPow10(a, n, rem) ==
    IF n = 0 \/ a = <<>> THEN <<a, rem>>
    ELSE LET j  == IF n >= 4 THEN 4 ELSE 1
             qr == NDivS(a, 10^j)
         IN  DivPow10(qr[1], n - j, rem \/ qr[2] # 0)

DecLit(digs, frac, f) ==
    LET D  == NFromDigits(digs, <<>>)
        k  == f.p + 3 + 4 * frac
        qs == DivPow10(NShl(D, k), frac, FALSE)
    IN  Round(Val(0, NAdd(NShl(qs[1], 1), IF qs[2] THEN <<1>> ELSE <<>>), -(k + 1)), f)

FloatLit(digs, frac) == DecLit(digs, frac, Binary32)

DoubleLit(digs, frac) == DecLit(digs, frac, Binary64)

(***************************************************************************)
(* The constants of the header (and of <cmath>, quoted in its comments).   *)
(***************************************************************************)
M_PI == DoubleLit(<<3,1,4,1,5,9,2,6,5,3,5,8,9,7,9,3,2,3,8,4,6>>, 20)

M_2PI == DoubleLit(<<6,2,8,3,1,8,5,3,0,7,1,7,9,5,8,6,4,7,6,9,2>>, 20)

M_1_2PI == DoubleLit(<<0,1,5,9,1,5,4,9,4,3,0,9,1,8,9,5,3,3,5,7,7>>, 20)

M_4_PI == DoubleLit(<<1,2,7,3,2,3,9,5,4,4,7,3,5,1,6,2,6,8,6,1,5>>, 20)

M_4_PI2 == DoubleLit(<<0,4,0,5,2,8,4,7,3,4,5,6,9,3,5,1,0,8,5,7,8>>, 20)

f_HI == FloatLit(<<1,2,9,0,0,0,0,0>>, 5)

f_LOW == FNeg(FloatLit(<<1,2,6,9,9,9,9,9>>, 5))

LOG_EXP == 2139095040

LOG_MANT == 8388607

\* no correction term, which the error property tells from CONST_P
CONST_P_None == Val(0, <<>>, 0)

CONST_P == FloatLit(<<0,2,2,5>>, 3)

\* the literals 0.5f, 1.0f and 0.25f
HalfF == FloatLit(<<0,5>>, 1)

OneF == FloatLit(<<1,0>>, 1)

QuarterF == FloatLit(<<0,2,5>>, 2)

\* the casts (float)M_2PI, (float)M_1_2PI, (float)M_4_PI, (float)M_4_PI2
M_2PI_f == ToFloat(M_2PI)

M_1_2PI_f == ToFloat(M_1_2PI)

M_4_PI_f == ToFloat(M_4_PI)

M_4_PI2_f == ToFloat(M_4_PI2)

(***************************************************************************)
(* The polynomial macros.  A polynomial is evaluated by Horner's rule,     *)
(* innermost product first: acc = x * acc + c, the product rounded to      *)
(* format mf and the sum to format af, which are the types C++ gives the   *)
(* two operations.                                                         *)
(***************************************************************************)
Term(c, mf, af) == [c |-> c, mf |-> mf, af |-> af]

\* a nan stays a nan
RECURSIVE Horner(_, _, _)
Horner(x, terms, acc) ==
    IF terms = <<>> \/ acc.k = "nan" THEN acc
    ELSE Horner(x, Tail(terms),
                Add(Mul(x, acc, Head(terms).mf), Head(terms).c, Head(terms).af))

\* x * (x * (x * (x * (x * 1.8775767e-3f + 8.9893397e-3f) + 5.5826318e-2f)
\*    + 2.4015361e-1f) + 6.9315308e-1f) + 9.9999994e-1f
PolyExpLead == FloatLit(<<1,8,7,7,5,7,6,7>>, 10)

PolyExpTerms ==
    << Term(FloatLit(<<8,9,8,9,3,3,9,7>>, 10), Binary32, Binary32),
       Term(FloatLit(<<5,5,8,2,6,3,1,8>>, 9), Binary32, Binary32),
       Term(FloatLit(<<2,4,0,1,5,3,6,1>>, 8), Binary32, Binary32),
       Term(FloatLit(<<6,9,3,1,5,3,0,8>>, 8), Binary32, Binary32),
       Term(FloatLit(<<9,9,9,9,9,9,9,4>>, 8), Binary32, Binary32) >>

POLYEXP(x) == ToFloat(Horner(x, PolyExpTerms, PolyExpLead))

\* x * (x * (x * (x * (x * -3.4436006e-2f + 3.1821337e-1f) + -1.2315303f)
\*    + 2.5988452) + -3.3241990f) + 3.1157899f
\* The literal 2.5988452 has no suffix: the float product x * (...) is added
\* to it as a double, and from there on products and sums are doubles.
PolyLogLead == FNeg(FloatLit(<<3,4,4,3,6,0,0,6>>, 9))

PolyLogTerms ==
    << Term(FloatLit(<<3,1,8,2,1,3,3,7>>, 8), Binary32, Binary32),
       Term(FNeg(FloatLit(<<1,2,3,1,5,3,0,3>>, 7)), Binary32, Binary32),
       Term(DoubleLit(<<2,5,9,8,8,4,5,2>>, 7), Binary32, Binary64),
       Term(FNeg(FloatLit(<<3,3,2,4,1,9,9,0>>, 7)), Binary64, Binary64),
       Term(FloatLit(<<3,1,1,5,7,8,9,9>>, 7), Binary64, Binary64) >>

POLYLOG(x) == ToFloat(Horner(x, PolyLogTerms, PolyLogLead))

(***************************************************************************)
(* int operators on 32-bit ints.                                           *)
(***************************************************************************)
\* a & b and a | b on naturals of w bits, halving w down to single bits
RECURSIVE AndNat(_, _, _)
AndNat(a, b, w) ==
    IF w = 1 THEN a * b
    ELSE LET h == w \div 2
         IN  AndNat(a % 2^h, b % 2^h, h) + 2^h * AndNat(a \div 2^h, b \div 2^h, w - h)

RECURSIVE OrNat(_, _, _)
OrNat(a, b, w) ==
    IF w = 1 THEN (IF a + b > 0 THEN 1 ELSE 0)
    ELSE LET h == w \div 2
         IN  OrNat(a % 2^h, b % 2^h, h) + 2^h * OrNat(a \div 2^h, b \div 2^h, w - h)

\* a & b
BitAnd(a, b) ==
    WithSign(IF a < 0 /\ b < 0 THEN 1 ELSE 0, AndNat(Low31(a), Low31(b), 31))

\* a | b
BitOr(a, b) ==
    WithSign(IF a < 0 \/ b < 0 THEN 1 ELSE 0, OrNat(Low31(a), Low31(b), 31))

\* a >> k, the sign bit shifted in
Shr(a, k) == a \div 2^k

\* a << k on 32 bits for 0 < k < 32: the bits shifted past bit 31 are lost
Shl(a, k) ==
    LET low == a % 2^(32 - k)
    IN  IF low >= 2^(31 - k) THEN (low - 2^(32 - k)) * 2^k ELSE low * 2^k

\* std::min(a, b) and std::max(a, b) of <algorithm>
StdMin(a, b) == IF FLt(b, a) THEN b ELSE a

StdMax(a, b) == IF FLt(a, b) THEN b ELSE a

(***************************************************************************)
(* The statements.  Each takes the record of the function's parameter and  *)
(* locals and gives the record after the statement.  A local that has not  *)
(* been assigned yet holds 0; no statement reads one.                      *)
(***************************************************************************)

\* a clamp from below only, which the clamp property tells from Clamp
ClampLowOnly(x) == StdMax(x, f_LOW)

\* fExp2, lines 89-90: x = std::min(x, f_HI); x = std::max(x, f_LOW);
Clamp(x) == StdMax(StdMin(x, f_HI), f_LOW)

Exp2Clamp(l) == [l EXCEPT !.x = AsInt(Clamp(AsFloat(l.x)))]

\* line 92: ipart.i = (int)(x - 0.5f);
IntPart(x) == ToInt(FSubF(x, HalfF))

Exp2Ipart(l) == [l EXCEPT !.ipart = IntPart(AsFloat(l.x))]

\* line 93: fpart.f = (x - (float)(ipart.i));
Exp2Fpart(l) ==
    [l EXCEPT !.fpart = AsInt(FSubF(AsFloat(l.x), ToFloat(OfInt(l.ipart))))]

\* line 94: expipart.i = ((ipart.i + 127) << 23);
Exp2Expipart(l) == [l EXCEPT !.expipart = Shl(l.ipart + 127, 23)]

\* line 96: return (expipart.f * POLYEXP(fpart.f));
Exp2Return(l) == AsInt(FMulF(AsFloat(l.expipart), POLYEXP(AsFloat(l.fpart))))

\* fLog2, lines 103-104: one.f = 1.0f; i.f = x;
Log2Load(l) == [l EXCEPT !.one = AsInt(OneF), !.i = l.x]

\* the exponent field with its bias left in, which the exponent property
\* tells from LogExponent
LogExponentBiased(i) == Shr(BitAnd(i, LOG_EXP), 23)

\* line 105: e.f = (float)(((i.i & LOG_EXP) >> 23) - 127);
LogExponent(i) == Shr(BitAnd(i, LOG_EXP), 23) - 127

Log2Exponent(l) == [l EXCEPT !.e = AsInt(ToFloat(OfInt(LogExponent(l.i))))]

\* line 106: m.i = ((i.i & LOG_MANT) | one.i);
LogMantissa(i, one) == BitOr(BitAnd(i, LOG_MANT), one)

Log2Mantissa(l) == [l EXCEPT !.m = LogMantissa(l.i, l.one)]

\* line 108: return (POLYLOG(m.f) * (m.f - one.f) + e.f);
Log2Return(l) ==
    AsInt(FAddF(FMulF(POLYLOG(AsFloat(l.m)),
                      FSubF(AsFloat(l.m), AsFloat(l.one))),
                AsFloat(l.e)))

\* the seed without its last term, which the seed property tells from
\* SqrtSeed
SqrtSeedHigh(i) == Shl(1, 29) + Shr(i, 1)

\* bab2xSqrt, lines 116-117: a.f = x; a.i = (1<<29) + (a.i >> 1) - (1<<22);
SqrtSeed(i) == (Shl(1, 29) + Shr(i, 1)) - Shl(1, 22)

SqrtSeedStmt(l) == [l EXCEPT !.a = SqrtSeed(l.x)]

\* line 120: a.f = a.f + x/a.f;
SqrtStep(l) ==
    [l EXCEPT !.a = AsInt(FAddF(AsFloat(l.a), FDiv(AsFloat(l.x), AsFloat(l.a))))]

\* line 121: return 0.25f*a.f + x/a.f;
SqrtReturn(l) ==
    AsInt(FAddF(FMulF(QuarterF, AsFloat(l.a)), FDiv(AsFloat(l.x), AsFloat(l.a))))

\* fSin, line 195: if(x > M_2PI || x < -M_2PI)
\*                     x -= ((int)(x * (float)M_1_2PI)) * (float)M_2PI;
\* The comparisons are made in double, where x and M_2PI are exact.  k counts
\* the multiples of (float)M_2PI taken off x; it is not a local of the code.
SinQuotient(x) == ToInt(FMulF(x, M_1_2PI_f))

SinModulo(l) ==
    LET x == AsFloat(l.x)
    IN  IF FLt(M_2PI, x) \/ FLt(x, FNeg(M_2PI))
        THEN [l EXCEPT !.x = AsInt(FSubF(x, FMulF(ToFloat(OfInt(SinQuotient(x))),
                                                 M_2PI_f))),
                       !.k = SinQuotient(x)]
        ELSE l

\* no adjustment, which the range property tells from SinAdjust
SinAdjustNone(l) == l

\* lines 196-203: if(x < -M_PI) x += (float)M_2PI;
\*                else if(x > M_PI) x -= (float)M_2PI;
SinAdjust(l) ==
    LET x == AsFloat(l.x)
    IN  IF FLt(x, FNeg(M_PI))
        THEN [l EXCEPT !.x = AsInt(FAddF(x, M_2PI_f)), !.k = l.k - 1]
        ELSE IF FLt(M_PI, x)
        THEN [l EXCEPT !.x = AsInt(FSubF(x, M_2PI_f)), !.k = l.k + 1]
        ELSE l

\* the parabola without std::fabs, which oddness tells from SinParabola
SinParabolaSquare(l) ==
    LET x == AsFloat(l.x)
    IN  [l EXCEPT !.x = AsInt(FSubF(FMulF(M_4_PI_f, x),
                                    FMulF(FMulF(M_4_PI2_f, x), x)))]

\* line 205: x = ((float)M_4_PI * x) - ((float)M_4_PI2 * x * std::fabs(x));
SinParabola(l) ==
    LET x == AsFloat(l.x)
    IN  [l EXCEPT !.x = AsInt(FSubF(FMulF(M_4_PI_f, x),
                                    FMulF(FMulF(M_4_PI2_f, x), FAbs(x))))]

\* line 206: return CONST_P * (x * std::fabs(x) - x) + x;
SinReturn(l) ==
    LET x == AsFloat(l.x)
    IN  AsInt(FAddF(FMulF(CONST_P, FSubF(FMulF(x, FAbs(x)), x)), x))

\* fAsin and fAtan, lines 233 and 244: float x2 = x * x;
SquareStmt(l) == [l EXCEPT !.x2 = AsInt(FMulF(AsFloat(l.x), AsFloat(l.x)))]

\* The nested sums of lines 234 and 245, innermost first:
\* acc = (c + acc) * x2, or (c - acc) * x2 where the code subtracts.
Coef(c, minus) == [c |-> c, minus |-> minus]

RECURSIVE Nest(_, _, _)
Nest(x2, coefs, acc) ==
    IF coefs = <<>> \/ acc.k = "nan" THEN acc
    ELSE Nest(x2, Tail(coefs),
              FMulF(IF Head(coefs).minus THEN FSubF(Head(coefs).c, acc)
                                         ELSE FAddF(Head(coefs).c, acc), x2))

\* line 234: return (x + (0.166666667f + (0.075f + (0.0446428571f
\*           + (0.0303819444f + 0.022372159f * x2) * x2) * x2) * x2) * x2);
AsinLead == FloatLit(<<0,0,2,2,3,7,2,1,5,9>>, 9)

AsinCoefs ==
    << Coef(FloatLit(<<0,0,3,0,3,8,1,9,4,4,4>>, 10), FALSE),
       Coef(FloatLit(<<0,0,4,4,6,4,2,8,5,7,1>>, 10), FALSE),
       Coef(FloatLit(<<0,0,7,5>>, 3), FALSE),
       Coef(FloatLit(<<0,1,6,6,6,6,6,6,6,7>>, 9), FALSE) >>

AsinReturn(l) ==
    LET x2 == AsFloat(l.x2)
    IN  AsInt(FAddF(AsFloat(l.x), Nest(x2, AsinCoefs, FMulF(AsinLead, x2))))

\* line 245: return (x - (0.333333333333f + (0.2f - (0.1428571429f
\*           + (0.111111111111f - 0.0909090909f * x2) * x2) * x2) * x2) * x2);
AtanLead == FloatLit(<<0,0,9,0,9,0,9,0,9,0,9>>, 10)

AtanCoefs ==
    << Coef(FloatLit(<<0,1,1,1,1,1,1,1,1,1,1,1,1>>, 12), TRUE),
       Coef(FloatLit(<<0,1,4,2,8,5,7,1,4,2,9>>, 10), FALSE),
       Coef(FloatLit(<<0,2>>, 1), TRUE),
       Coef(FloatLit(<<0,3,3,3,3,3,3,3,3,3,3,3,3>>, 12), FALSE) >>

AtanReturn(l) ==
    LET x2 == AsFloat(l.x2)
    IN  AsInt(FSubF(AsFloat(l.x), Nest(x2, AtanCoefs, FMulF(AtanLead, x2))))

(***************************************************************************)
(* The functions, as programs of statements.  A call is a record of the    *)
(* function, the statement it stands at, its locals and its return value.  *)
(***************************************************************************)
Functions == {"fExp2", "fLog2", "fSqrt", "fSin", "fAsin", "fAtan"}

\* the entry of a function: its parameter holds the argument
Locals(f, a) ==
    CASE f = "fExp2" -> [x |-> a, ipart |-> 0, fpart |-> 0, expipart |-> 0]
      [] f = "fLog2" -> [x |-> a, one |-> 0, i |-> 0, e |-> 0, m |-> 0]
      [] f = "fSqrt" -> [x |-> a, a |-> 0]
      [] f = "fSin" -> [x |-> a, k |-> 0]
      [] f = "fAsin" -> [x |-> a, x2 |-> 0]
      [] f = "fAtan" -> [x |-> a, x2 |-> 0]

First(f) ==
    CASE f = "fExp2" -> "clamp"
      [] f = "fLog2" -> "load"
      [] f = "fSqrt" -> "seed"
      [] f = "fSin" -> "modulo"
      [] f = "fAsin" -> "square"
      [] f = "fAtan" -> "square"

Entry(f, a) == [fn |-> f, pc |-> First(f), loc |-> Locals(f, a), ret |-> 0]

Goto(c, label, l) == [c EXCEPT !.pc = label, !.loc = l]

Return(c, r) == [c EXCEPT !.pc = "done", !.ret = r]

fExp2(c) ==
    CASE c.pc = "clamp" -> Goto(c, "ipart", Exp2Clamp(c.loc))
      [] c.pc = "ipart" -> Goto(c, "fpart", Exp2Ipart(c.loc))
      [] c.pc = "fpart" -> Goto(c, "expipart", Exp2Fpart(c.loc))
      [] c.pc = "expipart" -> Goto(c, "return", Exp2Expipart(c.loc))
      [] c.pc = "return" -> Return(c, Exp2Return(c.loc))

fLog2(c) ==
    CASE c.pc = "load" -> Goto(c, "exponent", Log2Load(c.loc))
      [] c.pc = "exponent" -> Goto(c, "mantissa", Log2Exponent(c.loc))
      [] c.pc = "mantissa" -> Goto(c, "return", Log2Mantissa(c.loc))
      [] c.pc = "return" -> Return(c, Log2Return(c.loc))

bab2xSqrt(c) ==
    CASE c.pc = "seed" -> Goto(c, "step", SqrtSeedStmt(c.loc))
      [] c.pc = "step" -> Goto(c, "return", SqrtStep(c.loc))
      [] c.pc = "return" -> Return(c, SqrtReturn(c.loc))

\* line 174: return bab2xSqrt(a);
fSqrt(c) == bab2xSqrt(c)

fSin(c) ==
    CASE c.pc = "modulo" -> Goto(c, "adjust", SinModulo(c.loc))
      [] c.pc = "adjust" -> Goto(c, "parabola", SinAdjust(c.loc))
      [] c.pc = "parabola" -> Goto(c, "return", SinParabola(c.loc))
      [] c.pc = "return" -> Return(c, SinReturn(c.loc))

fAsin(c) ==
    CASE c.pc = "square" -> Goto(c, "return", SquareStmt(c.loc))
      [] c.pc = "return" -> Return(c, AsinReturn(c.loc))

fAtan(c) ==
    CASE c.pc = "square" -> Goto(c, "return", SquareStmt(c.loc))
      [] c.pc = "return" -> Return(c, AtanReturn(c.loc))

\* one statement of the call c
Step(c) ==
    CASE c.fn = "fExp2" -> fExp2(c)
      [] c.fn = "fLog2" -> fLog2(c)
      [] c.fn = "fSqrt" -> fSqrt(c)
      [] c.fn = "fSin" -> fSin(c)
      [] c.fn = "fAsin" -> fAsin(c)
      [] c.fn = "fAtan" -> fAtan(c)

\* the call c run to its return
RECURSIVE Run(_)
Run(c) == IF c.pc = "done" THEN c ELSE Run(Step(c))

\* the value f(a), as bits
Call(f, a) == Run(Entry(f, a)).ret

(***************************************************************************)
(* The arguments the calls are made with.                                  *)
(***************************************************************************)
\* the float (-1)^s * n * 2^e, as bits
FBits(s, n, e) == AsInt(ToFloat(Val(s, NFromInt(n), e)))

\* the float with sign s, biased exponent E and fraction M, as bits
Pack(s, E, M) == WithSign(s, E * 2^23 + M)

Signs == {0, 1}

\* fExp2: the multiples of 1/8 up to Exp2Range in size, the two clamps and
\* their neighbours, values far outside them, tiny values and the infinities.
\* A nan is not among them: the clamp lets it through, and the cast to int
\* of line 92 is undefined on it.
Exp2Range == 132

Exp2Args ==
    {FBits(s, n, 0 - 3) : s \in Signs, n \in 0..(8 * Exp2Range)}
      \cup {AsInt(f_HI), AsInt(f_HI) - 1, AsInt(f_HI) + 1,
            AsInt(f_LOW), AsInt(f_LOW) - 1, AsInt(f_LOW) + 1}
      \cup {FBits(s, 200, 0) : s \in Signs}
      \cup {Pack(s, E, M) : s \in Signs, E \in {0, 1, 100, 125, 254},
                            M \in {0, 8388607}}
      \cup {Pack(s, 255, 0) : s \in Signs}

\* fLog2: every exponent of a normal float, with LogFractions fractions
LogFractions == 4

Log2Args ==
    {Pack(0, E, M) : E \in 1..254,
                     M \in {(j * 8388607) \div LogFractions : j \in 0..LogFractions}}

\* fSqrt: every exponent of a normal float, with SqrtFractions fractions
SqrtFractions == 2

SqrtArgs ==
    {Pack(0, E, M) : E \in 1..254,
                     M \in {(j * 8388607) \div SqrtFractions : j \in 0..SqrtFractions}}

\* fSin: the multiples of 1/32 up to SinRange in size, the floats next to
\* pi and 2 pi, and larger values up to 2^SinMaxExp in size
SinRange == 7

SinMaxExp == 30

SinArgs ==
    {FBits(s, n, 0 - 5) : s \in Signs, n \in 0..(32 * SinRange)}
      \cup {WithSign(s, AsInt(ToFloat(c)) + d) :
                s \in Signs, c \in {M_PI, M_2PI}, d \in {0 - 1, 0, 1}}
      \cup {FBits(s, n, e) : s \in Signs, n \in {5, 7, 8388609, 16777215},
                             e \in 0..(SinMaxExp - 24)}
      \cup {FBits(s, 137660832, 0) : s \in Signs}

\* fAsin and fAtan: the multiples of 1/64 up to TrigRange in size
TrigRange == 2

TrigArgs == {FBits(s, n, 0 - 6) : s \in Signs, n \in 0..(64 * TrigRange)}

Args(f) ==
    CASE f = "fExp2" -> Exp2Args
      [] f = "fLog2" -> Log2Args
      [] f = "fSqrt" -> SqrtArgs
      [] f = "fSin" -> SinArgs
      [] f = "fAsin" -> TrigArgs
      [] f = "fAtan" -> TrigArgs

(***************************************************************************)
(* The state machine: a call of f with argument a, run one statement at a  *)
(* time to its return.                                                     *)
(***************************************************************************)
Called(f) ==
    /\ fn = f
    /\ arg \in Args(f)
    /\ pc = First(f)
    /\ loc = Locals(f, arg)
    /\ ret = 0

Init == \E f \in Functions : Called(f)

Self == [fn |-> fn, pc |-> pc, loc |-> loc, ret |-> ret]

\* the call stands at the statement label of function f
At(f, label) == fn = f /\ pc = label

\* the call becomes c
Becomes(c) ==
    /\ pc' = c.pc
    /\ loc' = c.loc
    /\ ret' = c.ret
    /\ UNCHANGED <<fn, arg>>

fExp2_clamp ==
    /\ At("fExp2", "clamp")
    /\ Becomes(fExp2(Self))

fExp2_ipart ==
    /\ At("fExp2", "ipart")
    /\ Becomes(fExp2(Self))

fExp2_fpart ==
    /\ At("fExp2", "fpart")
    /\ Becomes(fExp2(Self))

fExp2_expipart ==
    /\ At("fExp2", "expipart")
    /\ Becomes(fExp2(Self))

fExp2_return ==
    /\ At("fExp2", "return")
    /\ Becomes(fExp2(Self))

fLog2_load ==
    /\ At("fLog2", "load")
    /\ Becomes(fLog2(Self))

fLog2_exponent ==
    /\ At("fLog2", "exponent")
    /\ Becomes(fLog2(Self))

fLog2_mantissa ==
    /\ At("fLog2", "mantissa")
    /\ Becomes(fLog2(Self))

fLog2_return ==
    /\ At("fLog2", "return")
    /\ Becomes(fLog2(Self))

fSqrt_seed ==
    /\ At("fSqrt", "seed")
    /\ Becomes(fSqrt(Self))

fSqrt_step ==
    /\ At("fSqrt", "step")
    /\ Becomes(fSqrt(Self))

fSqrt_return ==
    /\ At("fSqrt", "return")
    /\ Becomes(fSqrt(Self))

fSin_modulo ==
    /\ At("fSin", "modulo")
    /\ Becomes(fSin(Self))

fSin_adjust ==
    /\ At("fSin", "adjust")
    /\ Becomes(fSin(Self))

fSin_parabola ==
    /\ At("fSin", "parabola")
    /\ Becomes(fSin(Self))

fSin_return ==
    /\ At("fSin", "return")
    /\ Becomes(fSin(Self))

fAsin_square ==
    /\ At("fAsin", "square")
    /\ Becomes(fAsin(Self))

fAsin_return ==
    /\ At("fAsin", "return")
    /\ Becomes(fAsin(Self))

fAtan_square ==
    /\ At("fAtan", "square")
    /\ Becomes(fAtan(Self))

fAtan_return ==
    /\ At("fAtan", "return")
    /\ Becomes(fAtan(Self))

NextExp2 ==
    fExp2_clamp \/ fExp2_ipart \/ fExp2_fpart \/ fExp2_expipart \/ fExp2_return

NextLog2 == fLog2_load \/ fLog2_exponent \/ fLog2_mantissa \/ fLog2_return

NextSqrt == fSqrt_seed \/ fSqrt_step \/ fSqrt_return

NextSin == fSin_modulo \/ fSin_adjust \/ fSin_parabola \/ fSin_return

NextTrig == fAsin_square \/ fAsin_return \/ fAtan_square \/ fAtan_return

Next == NextExp2 \/ NextLog2 \/ NextSqrt \/ NextSin \/ NextTrig

Spec == Init /\ [][Next]_vars

\* the calls of one function
SpecExp2 == Called("fExp2") /\ [][NextExp2]_vars

SpecLog2 == Called("fLog2") /\ [][NextLog2]_vars

SpecSqrt == Called("fSqrt") /\ [][NextSqrt]_vars

SpecSin == Called("fSin") /\ [][NextSin]_vars

SpecTrig == (Called("fAsin") \/ Called("fAtan")) /\ [][NextTrig]_vars

(***************************************************************************)
(* Properties of fExp2, checked under SpecExp2.                            *)
(***************************************************************************)
\* the argument is finite / lies in the clamp range [f_LOW, f_HI]
FiniteArg == IsFinite(AsFloat(arg))

InClamp == FLe(f_LOW, AsFloat(arg)) /\ FLe(AsFloat(arg), f_HI)

\* fExp2(129.0f) and fExp2(-126.99999f)
Exp2AtHi == Call("fExp2", AsInt(f_HI))

Exp2AtLow == Call("fExp2", AsInt(f_LOW))

\* the float -0.49999997 (bits 0xBEFFFFFF), the one float of the clamp range
\* at which x - 0.5f and x - (float)n are not exact
Exp2Tie == Pack(1, 125, 8388607)

\* C2: fExp2 clamps silently: a call with x >= 129.0 returns what
\* fExp2(129.0) returns, a call with x <= -126.99999 returns what
\* fExp2(-126.99999) returns, and for these x the value the cast to int
\* is applied to lies in the clamp range, where the cast is defined.
InvC2 ==
    (fn = "fExp2" /\ (FLe(f_HI, AsFloat(arg)) \/ FLe(AsFloat(arg), f_LOW)))
        => /\ pc # "clamp" =>
                  loc.x = AsInt(IF FLe(f_HI, AsFloat(arg)) THEN f_HI ELSE f_LOW)
           /\ pc = "done" =>
                  ret = (IF FLe(f_HI, AsFloat(arg)) THEN Exp2AtHi ELSE Exp2AtLow)

\* fExp2(200) has returned fExp2(129.0)
WitC2 ==
    /\ fn = "fExp2" /\ pc = "done"
    /\ arg = FBits(0, 200, 0)
    /\ ret = Exp2AtHi

\* fExp2(-200) has returned fExp2(-126.99999)
WitC2Low ==
    /\ fn = "fExp2" /\ pc = "done"
    /\ arg = FBits(1, 200, 0)
    /\ ret = Exp2AtLow

\* C5 as stated: for every x in the clamp range, n = floor(x - 0.5) and
\* f = x - n
CexC5 ==
    (fn = "fExp2" /\ pc \in {"expipart", "return", "done"} /\ InClamp)
        => /\ loc.ipart = Floor(ExactSub(AsFloat(arg), HalfF))
           /\ FEq(AsFloat(loc.fpart), ExactSub(AsFloat(arg), OfInt(loc.ipart)))

\* fExp2(-3.25) has taken n = -3, which is floor(-3.25 - 0.5) + 1
FailC5 ==
    /\ fn = "fExp2" /\ pc = "done"
    /\ arg = FBits(1, 13, 0 - 2)
    /\ loc.ipart = 0 - 3
    /\ loc.ipart = Floor(ExactSub(AsFloat(arg), HalfF)) + 1

\* What the code computes: the cast truncates toward zero, so n is
\* floor(x - 0.5) for x >= 0.5 and ceil(x - 0.5) for x < 0.5, and f = x - n
\* exactly; at x = -0.49999997 the float x - 0.5f rounds to -1, so n = -1,
\* and x - n rounds to f = 0.5.
TruncatedSplit ==
    (fn = "fExp2" /\ pc \in {"expipart", "return", "done"} /\ InClamp)
        => LET x == AsFloat(arg)
               y == ExactSub(x, HalfF)
               n == loc.ipart
               f == AsFloat(loc.fpart)
           IN  IF arg = Exp2Tie
               THEN n = 0 - 1 /\ FEq(f, HalfF)
               ELSE /\ n = (IF FLe(HalfF, x) THEN Floor(y) ELSE Ceil(y))
                    /\ FEq(f, ExactSub(x, OfInt(n)))

\* C9 as stated: for every x in the clamp range the remainder f passed to
\* POLYEXP lies in [0, 1]
CexC9 ==
    (fn = "fExp2" /\ pc \in {"expipart", "return", "done"} /\ InClamp)
        => /\ FLe(OfInt(0), AsFloat(loc.fpart))
           /\ FLe(AsFloat(loc.fpart), OneF)

\* fExp2(1.25) has passed the remainder f = 1.25 to POLYEXP
FailC9 ==
    /\ fn = "fExp2" /\ pc = "done"
    /\ arg = FBits(0, 5, 0 - 2)
    /\ loc.ipart = 0
    /\ FEq(AsFloat(loc.fpart), AsFloat(arg))

\* C1 as stated: for every finite x the biased exponent n + 127 lies in
\* 0..254, and both the constructed 2^n and the value returned are finite
CexC1 ==
    (fn = "fExp2" /\ pc \in {"return", "done"} /\ FiniteArg)
        => /\ loc.ipart + 127 \in 0..254
           /\ IsFinite(AsFloat(loc.expipart))
           /\ pc = "done" => IsFinite(AsFloat(ret))

\* fExp2(129.0) has shifted the biased exponent 255 into the exponent
\* field, and returned +infinity
FailC1 ==
    /\ fn = "fExp2" /\ pc = "done"
    /\ arg = AsInt(f_HI)
    /\ loc.ipart + 127 = 255
    /\ loc.expipart = Pack(0, 255, 0)
    /\ ret = Pack(0, 255, 0)

(***************************************************************************)
(* Properties of fLog2, checked under SpecLog2.  Every argument is a       *)
(* positive normal float; E and M are its exponent and mantissa fields.    *)
(***************************************************************************)
ArgE == arg \div 2^23

ArgM == arg % 2^23

\* C8: for a positive normal x with fields E in 1..254 and M, fLog2 takes
\* E - 127 as the integer part and builds m with the bits 0x3F800000 | M,
\* so that 1 <= m < 2 and x = 2^(E-127) * m; it returns
\* POLYLOG(m) * (m - 1) + (E - 127), which for x = 2^k (M = 0) is exactly k.
InvC8 ==
    (fn = "fLog2" /\ arg > 0 /\ ArgE \in 1..254)
        => LET x == AsFloat(arg)
               e == AsFloat(loc.e)
               m == AsFloat(loc.m)
           IN  /\ pc \in {"mantissa", "return", "done"} => FEq(e, OfInt(ArgE - 127))
               /\ pc \in {"return", "done"} =>
                      /\ loc.m = Pack(0, 127, ArgM)
                      /\ FLe(OneF, m) /\ FLt(m, OfInt(2))
                      /\ FEq(x, ExactMul(Pow2(ArgE - 127), m))
               /\ pc = "done" =>
                      /\ FEq(AsFloat(ret),
                             FAddF(FMulF(POLYLOG(m), FSubF(m, OneF)), e))
                      /\ ArgM = 0 => FEq(AsFloat(ret), OfInt(ArgE - 127))

\* fLog2(8.0) has returned 3.0, from the mantissa m = 1.0
WitC8 ==
    /\ fn = "fLog2" /\ pc = "done"
    /\ arg = Pack(0, 130, 0)
    /\ loc.m = AsInt(OneF)
    /\ FEq(AsFloat(ret), OfInt(3))

(***************************************************************************)
(* Properties of fSqrt, checked under SpecSqrt.                            *)
(***************************************************************************)
\* the argument is a normal 4^k: its exponent E - 127 is even, M is 0
IsPow4 == arg > 0 /\ ArgE \in 1..254 /\ ArgE % 2 = 1 /\ ArgM = 0

\* k, for the argument 4^k
Pow4K == (ArgE - 127) \div 2

\* one iteration a <- 0.5 * (a + x / a), in float
Babylonian(x, a) == FMulF(HalfF, FAddF(a, FDiv(x, a)))

\* C6: for a normal x = 4^k the seed is the bit pattern of 2^k, the value
\* returned is what two iterations of a <- 0.5 * (a + x / a) give from that
\* seed, and it is exactly 2^k; fSqrt(4.0) is within 1% of 2.0.
InvC6 ==
    (fn = "fSqrt" /\ IsPow4)
        => LET x    == AsFloat(arg)
               seed == AsInt(Pow2(Pow4K))
           IN  /\ FEq(x, Pow2(2 * Pow4K))
               /\ pc = "step" => loc.a = seed
               /\ pc = "done" =>
                      /\ FEq(AsFloat(ret), Babylonian(x, Babylonian(x, AsFloat(seed))))
                      /\ ret = seed
                      /\ arg = AsInt(OfInt(4)) =>
                             FLe(ExactMul(OfInt(50),
                                          FAbs(ExactSub(AsFloat(ret), OfInt(2)))),
                                 OneF)

\* fSqrt(4.0) has returned 2.0
WitC6 ==
    /\ fn = "fSqrt" /\ pc = "done"
    /\ arg = AsInt(OfInt(4))
    /\ ret = AsInt(OfInt(2))

(***************************************************************************)
(* Properties of fSin, checked under SpecSin.                              *)
(***************************************************************************)
\* the bits of -x
NegBits(a) == AsInt(FNeg(AsFloat(a)))

\* pi as a float, 3.14159274
PiF == ToFloat(M_PI)

\* the quotient x * (float)M_1_2PI fits an int, so the cast of line 195 is
\* defined
QuotientFits == FLt(FAbs(FMulF(AsFloat(arg), M_1_2PI_f)), Pow2(31))

\* C3, as the code has it: for |x| <= 2^27 the value fed into the parabola
\* lies in [-(float)pi, (float)pi], and it is x - k * (float)M_2PI, for k
\* the truncated quotient adjusted by the +-1 of the second step, up to a
\* rounding error of at most |x| * 2^-24.
InvC3 ==
    (fn = "fSin" /\ pc = "parabola" /\ FLe(FAbs(AsFloat(arg)), Pow2(27)))
        => LET x == AsFloat(arg)
               r == AsFloat(loc.x)
               d == ExactSub(r, ExactSub(x, ExactMul(OfInt(loc.k), M_2PI_f)))
           IN  /\ FLe(FNeg(PiF), r) /\ FLe(r, PiF)
               /\ FLe(ExactMul(FAbs(d), Pow2(24)), FAbs(x))

\* a call with 100 < x <= 2^27 stands at the parabola, several multiples of
\* 2 pi taken off x
WitC3 ==
    /\ fn = "fSin" /\ pc = "parabola"
    /\ FLt(OfInt(100), AsFloat(arg)) /\ FLe(AsFloat(arg), Pow2(27))
    /\ loc.k > 15
    /\ FLe(FAbs(AsFloat(loc.x)), PiF)

\* C3 as stated: whenever the quotient fits an int, the value fed into the
\* parabola lies in [-pi, pi]
CexC3 ==
    (fn = "fSin" /\ pc = "parabola" /\ QuotientFits)
        => /\ FLe(FNeg(M_PI), AsFloat(loc.x))
           /\ FLe(AsFloat(loc.x), M_PI)

\* C10: fSin is odd: whenever the quotient fits an int,
\* fSin(-x) == -fSin(x), and fSin(0.0) == 0.0.
InvC10 ==
    (fn = "fSin" /\ pc = "done" /\ QuotientFits)
        => /\ FEq(AsFloat(Call("fSin", NegBits(arg))), FNeg(AsFloat(ret)))
           /\ IsZero(AsFloat(arg)) => IsZero(AsFloat(ret))

\* fSin(-2.5) has returned a negative value, and fSin(2.5) is minus that
WitC10 ==
    /\ fn = "fSin" /\ pc = "done"
    /\ arg = FBits(1, 5, 0 - 1)
    /\ ret < 0
    /\ Call("fSin", FBits(0, 5, 0 - 1)) = NegBits(ret)

(***************************************************************************)
(* The exact sine, to compare fSin with.  SinRef(x) is the Taylor series   *)
(* x - x^3/3! + x^5/5! - ... up to x^31/31!, summed in fixed point with 40 *)
(* bits after the point.  For |x| <= 2 pi the terms left out are below     *)
(* 10^-9 and the truncations add up to less than 2^-32, so SinRef(x) is    *)
(* within 2^-20 of sin(x).                                                 *)
(***************************************************************************)
\* floor(|v| * 2^40) for a finite v
Fix40(v) == IF v.e >= 0 - 40 THEN NShl(v.m, v.e + 40) ELSE NShr(v.m, 0 - 40 - v.e)

\* the term x^(n+2)/(n+2)! from the term t = x^n/n! and x2 = x^2
SinTerm(t, n, x2) == NDivS(NShr(NMul(t, x2), 40), (n + 1) * (n + 2))[1]

\* <<the sum of the terms added, the sum of the terms subtracted>>, from the
\* term t = x^n/n! on, two terms at a time: t is added, the next one
\* subtracted.  All are naturals scaled by 2^40; for |x| <= 2 pi the sums
\* stay below 2^60 (four limbs), and the series is not summed past that.
RECURSIVE SinSeries(_, _, _, _, _)
SinSeries(t, n, x2, plus, minus) ==
    IF n > 29 \/ t = <<>> \/ Len(plus) > 4 \/ Len(minus) > 4
    THEN <<plus, minus>>
    ELSE LET u == SinTerm(t, n, x2)
         IN  SinSeries(SinTerm(u, n + 2, x2), n + 4, x2,
                       NAdd(plus, t), NAdd(minus, u))

SinRef(x) ==
    LET X  == Fix40(x)
        pm == SinSeries(X, 1, NShr(NMul(X, X), 40), <<>>, <<>>)
    IN  IF NCmp(pm[1], pm[2]) >= 0
        THEN Val(x.s, NSub(pm[1], pm[2]), 0 - 40)
        ELSE Val(1 - x.s, NSub(pm[2], pm[1]), 0 - 40)

\* C7: for every x in [-2 pi, 2 pi], |fSin(x) - sin(x)| < 0.002: the
\* distance from SinRef(x), and the 2^-20 SinRef(x) may be off by, add up
\* to less than 1/500.
InvC7 ==
    (fn = "fSin" /\ pc = "done" /\ FLe(FAbs(AsFloat(arg)), M_2PI))
        => FLt(ExactMul(OfInt(500),
                        AddExact(FAbs(ExactSub(AsFloat(ret), SinRef(AsFloat(arg)))),
                                 Pow2(0 - 20))),
               OneF)

\* fSin(3.34375), near the largest error, has returned a value more than
\* 0.001 away from the sine
WitC7 ==
    /\ fn = "fSin" /\ pc = "done"
    /\ arg = FBits(0, 107, 0 - 5)
    /\ FLt(OneF, ExactMul(OfInt(1000),
                          FAbs(ExactSub(AsFloat(ret), SinRef(AsFloat(arg))))))

(***************************************************************************)
(* Properties of fAsin and fAtan, checked under SpecTrig.                  *)
(***************************************************************************)
\* C4 as stated: fAsin and fAtan are odd: f(-x) == -f(x) for every x
CexC4 ==
    (fn \in {"fAsin", "fAtan"} /\ pc = "done")
        => FEq(AsFloat(Call(fn, NegBits(arg))), FNeg(AsFloat(ret)))

\* the same for fAsin alone, and for fAtan alone
CexC4Asin ==
    (fn = "fAsin" /\ pc = "done")
        => FEq(AsFloat(Call("fAsin", NegBits(arg))), FNeg(AsFloat(ret)))

CexC4Atan ==
    (fn = "fAtan" /\ pc = "done")
        => FEq(AsFloat(Call("fAtan", NegBits(arg))), FNeg(AsFloat(ret)))

\* fAsin(0.5) has returned 0.547192216 (bits 0x3F0C14CA), and fAsin(-0.5)
\* is -0.452807754 (bits 0xBEE7D66B): the sum after x is a polynomial in
\* x2, the same for x and -x
FailC4 ==
    /\ fn = "fAsin" /\ pc = "done"
    /\ arg = AsInt(HalfF)
    /\ ret = Pack(0, 126, 791754)
    /\ Call("fAsin", NegBits(arg)) = Pack(1, 125, 6805099)

=============================================================================
